---------------------------- MODULE Spec2Model ----------------------------
(***************************************************************************)
(* partition-identity: find the ID of a device by its path, or a device   *)
(* path by its ID (src/src/lib.rs).                                        *)
(*                                                                         *)
(* Three specifications over one set of variables:                         *)
(*   SpecParse  text -> PartitionID (from_str) and back                    *)
(*   SpecScan   from_uuid / find_uuid over one directory listing           *)
(*   Spec       get_device_path / get_source over the /dev/disk/by-*       *)
(*              directories while these change                             *)
(*                                                                         *)
(* Rust strings are sequences of one-character strings, so that            *)
(* starts_with, slicing and concatenation are computed.                    *)
(***************************************************************************)
EXTENDS Integers, Sequences, FiniteSets, TLC

VARIABLES
    input,      \* SpecParse: the text handed to from_str
    parsed,     \* SpecParse: Result<PartitionID, String> of from_str(input)
    text,       \* SpecParse: the text form written back from parsed
    pstep,      \* SpecParse: "input" | "parsed" | "serialized"
    listing,    \* SpecScan: the entries an fs::ReadDir yields, in order
    query,      \* SpecScan: the last call made on listing
    answer,     \* SpecScan: what that call returned
    dirs,       \* Spec: directory path -> [exists, entries]
    call        \* Spec: the last get_device_path / get_source call

vars == <<input, parsed, text, pstep, listing, query, answer, dirs, call>>

----------------------------------------------------------------------------
(* Bounds *)

\* longest free tail appended to a head when enumerating from_str inputs
MaxTail == 2
\* longest directory listing handed to from_uuid / find_uuid in SpecScan
MaxEntries == 2
\* how far the /dev/disk/by-* directories get from all present and empty in
\* Spec: entries present plus directories missing
MaxDirChanges == 1

----------------------------------------------------------------------------
(* Option and Result *)

None == [some |-> FALSE]
Some(x) == [some |-> TRUE, val |-> x]
Ok(x) == [ok |-> TRUE, val |-> x]
Err(e) == [ok |-> FALSE, err |-> e]

SeqsUpTo(S, n) == UNION {[1..k -> S] : k \in 0..n}

----------------------------------------------------------------------------
(* str helpers *)

\* str::starts_with
starts_with(s, p) == Len(s) >= Len(p) /\ SubSeq(s, 1, Len(p)) = p

\* &s[n..]
SliceFrom(s, n) == SubSeq(s, n + 1, Len(s))

LowerCase == <<"a","b","c","d","e","f","g","h","i","j","k","l","m","n","o","p","q","r","s","t","u","v","w","x","y","z">>
UpperCase == <<"A","B","C","D","E","F","G","H","I","J","K","L","M","N","O","P","Q","R","S","T","U","V","W","X","Y","Z">>

\* uppercasing of one character: letters a..z move, everything else stays
UpperChar(c) ==
    IF \E i \in 1..Len(LowerCase) : LowerCase[i] = c
    THEN UpperCase[CHOOSE i \in 1..Len(LowerCase) : LowerCase[i] = c]
    ELSE c

ToUpper(s) == [i \in 1..Len(s) |-> UpperChar(s[i])]

----------------------------------------------------------------------------
(* PartitionSource and PartitionID *)

PartitionSource == {"ID", "Label", "PartLabel", "PartUUID", "Path", "UUID"}

\* PartitionID::new and the six convenience constructors
new(variant, id) == [variant |-> variant, id |-> id]
new_id(id) == new("ID", id)
new_label(id) == new("Label", id)
new_uuid(id) == new("UUID", id)
new_partlabel(id) == new("PartLabel", id)
new_partuuid(id) == new("PartUUID", id)
new_path(id) == new("Path", id)

\* a copy-and-paste slip in the match: PartLabel answers as Label does
TokenPartLabelAsLabel(pid) ==
    CASE pid = "ID" -> <<"i","d">>
      [] pid = "Label" -> <<"l","a","b","e","l">>
      [] pid = "PartLabel" -> <<"l","a","b","e","l">>
      [] pid = "PartUUID" -> <<"p","a","r","t","u","u","i","d">>
      [] pid = "Path" -> <<"p","a","t","h">>
      [] pid = "UUID" -> <<"u","u","i","d">>

\* impl From<PartitionSource> for &'static str
Token(pid) ==
    CASE pid = "ID" -> <<"i","d">>
      [] pid = "Label" -> <<"l","a","b","e","l">>
      [] pid = "PartLabel" -> <<"p","a","r","t","l","a","b","e","l">>
      [] pid = "PartUUID" -> <<"p","a","r","t","u","u","i","d">>
      [] pid = "Path" -> <<"p","a","t","h">>
      [] pid = "UUID" -> <<"u","u","i","d">>

\* PartitionSource::disk_by_path: ["/dev/disk/by-", token].concat()
disk_by_path(variant) ==
    <<"/","d","e","v","/","d","i","s","k","/","b","y","-">> \o Token(variant)

\* the tail of the message from_str fails with
ErrSuffix == <<"'"," ","i","s"," ","n","o","t"," ","a"," ","v","a","l","i","d"," ","P","a","r","t","i","t","i","o","n","I","D"," ","s","t","r","i","n","g">>

\* format!("'{}' is not a valid PartitionID string", input)
ErrMessage(s) == <<"'">> \o s \o ErrSuffix

\* the PARTUUID= arm slices as the PARTLABEL= arm does (10 instead of 9)
from_str_partuuid_offset(s) ==
    IF starts_with(s, <<"/">>) THEN Ok(new("Path", s))
    ELSE IF starts_with(s, <<"I","D","=">>) THEN Ok(new("ID", SliceFrom(s, 3)))
    ELSE IF starts_with(s, <<"L","A","B","E","L","=">>) THEN Ok(new("Label", SliceFrom(s, 6)))
    ELSE IF starts_with(s, <<"P","A","R","T","L","A","B","E","L","=">>) THEN Ok(new("PartLabel", SliceFrom(s, 10)))
    ELSE IF starts_with(s, <<"P","A","R","T","U","U","I","D","=">>) THEN Ok(new("PartUUID", SliceFrom(s, 10)))
    ELSE IF starts_with(s, <<"U","U","I","D","=">>) THEN Ok(new("UUID", SliceFrom(s, 5)))
    ELSE Err(ErrMessage(s))

\* the last arm takes any text without '=' for a path instead of failing
from_str_fallback_path(s) ==
    IF starts_with(s, <<"/">>) THEN Ok(new("Path", s))
    ELSE IF starts_with(s, <<"I","D","=">>) THEN Ok(new("ID", SliceFrom(s, 3)))
    ELSE IF starts_with(s, <<"L","A","B","E","L","=">>) THEN Ok(new("Label", SliceFrom(s, 6)))
    ELSE IF starts_with(s, <<"P","A","R","T","L","A","B","E","L","=">>) THEN Ok(new("PartLabel", SliceFrom(s, 10)))
    ELSE IF starts_with(s, <<"P","A","R","T","U","U","I","D","=">>) THEN Ok(new("PartUUID", SliceFrom(s, 9)))
    ELSE IF starts_with(s, <<"U","U","I","D","=">>) THEN Ok(new("UUID", SliceFrom(s, 5)))
    ELSE IF \A i \in 1..Len(s) : s[i] # "=" THEN Ok(new("Path", s))
    ELSE Err(ErrMessage(s))

\* impl FromStr for PartitionID
from_str(s) ==
    IF starts_with(s, <<"/">>) THEN Ok(new("Path", s))
    ELSE IF starts_with(s, <<"I","D","=">>) THEN Ok(new("ID", SliceFrom(s, 3)))
    ELSE IF starts_with(s, <<"L","A","B","E","L","=">>) THEN Ok(new("Label", SliceFrom(s, 6)))
    ELSE IF starts_with(s, <<"P","A","R","T","L","A","B","E","L","=">>) THEN Ok(new("PartLabel", SliceFrom(s, 10)))
    ELSE IF starts_with(s, <<"P","A","R","T","U","U","I","D","=">>) THEN Ok(new("PartUUID", SliceFrom(s, 9)))
    ELSE IF starts_with(s, <<"U","U","I","D","=">>) THEN Ok(new("UUID", SliceFrom(s, 5)))
    ELSE Err(ErrMessage(s))

\* the text form of a PartitionID: Path is the raw path, every other kind is
\* its token, uppercased, then '=', then the value
Serialize(pid) ==
    IF pid.variant = "Path" THEN pid.id
    ELSE ToUpper(Token(pid.variant)) \o <<"=">> \o pid.id

----------------------------------------------------------------------------
(* SpecParse: from_str on a bounded set of texts *)

\* heads: the recognised openings and their near misses
Heads ==
    { <<>>,
      <<"/">>,
      <<"/","d","e","v","/","s","d","a","1">>,
      <<"I","D","=">>,
      <<"L","A","B","E","L","=">>,
      <<"P","A","R","T","L","A","B","E","L","=">>,
      <<"P","A","R","T","U","U","I","D","=">>,
      <<"U","U","I","D","=">>,
      <<"I","D">>,
      <<"i","d","=">>,
      <<"L","A","B","E","L">>,
      <<"l","a","b","e","l","=">>,
      <<"P","A","R","T">>,
      <<"P","A","R","T","=">>,
      <<"P","A","R","T","I","D","=">>,
      <<"P","A","R","T","U","U","I","D">>,
      <<"X","U","U","I","D","=">>,
      <<" ","U","U","I","D","=">>,
      <<"U","U","I","D">>,
      <<"f","o","o">> }

TailChars == {"a", "=", "/"}

Inputs == {h \o t : h \in Heads, t \in SeqsUpTo(TailChars, MaxTail)}

InitParse ==
    /\ input \in Inputs
    /\ parsed = None /\ text = None /\ pstep = "input"
    /\ listing = <<>> /\ query = [op |-> "none"] /\ answer = None
    /\ dirs = <<>> /\ call = [op |-> "none"]

\* input.parse::<PartitionID>()
Parse ==
    /\ pstep = "input"
    /\ parsed' = from_str(input)
    /\ pstep' = "parsed"
    /\ UNCHANGED <<input, text, listing, query, answer, dirs, call>>

\* the parsed identity written back as text
WriteBack ==
    /\ pstep = "parsed"
    /\ parsed.ok
    /\ text' = Some(Serialize(parsed.val))
    /\ pstep' = "serialized"
    /\ UNCHANGED <<input, parsed, listing, query, answer, dirs, call>>

NextParse == Parse \/ WriteBack

SpecParse == InitParse /\ [][NextParse]_vars

----------------------------------------------------------------------------
(* The file system the scans read: device nodes and symbolic links *)

SDA1 == <<"/","d","e","v","/","s","d","a","1">>
SDA2 == <<"/","d","e","v","/","s","d","a","2">>
\* /dev/lnk is a symbolic link to /dev/sda1
LNK == <<"/","d","e","v","/","l","n","k">>
\* /dev/cyc is a symbolic link to itself
CYC == <<"/","d","e","v","/","c","y","c">>
\* /dev/gone does not exist
GONE == <<"/","d","e","v","/","g","o","n","e">>

FileSystem ==
    (SDA1 :> [type |-> "dev", to |-> <<>>]) @@
    (SDA2 :> [type |-> "dev", to |-> <<>>]) @@
    (LNK  :> [type |-> "link", to |-> SDA1]) @@
    (CYC  :> [type |-> "link", to |-> CYC])

RECURSIVE Resolve(_, _)
\* follow symbolic links from p; more links than there are paths is a loop
Resolve(p, fuel) ==
    IF p \notin DOMAIN FileSystem THEN Err("ENOENT")
    ELSE IF FileSystem[p].type = "dev" THEN Ok(p)
    ELSE IF fuel = 0 THEN Err("ELOOP")
    ELSE Resolve(FileSystem[p].to, fuel - 1)

\* Path::canonicalize
canonicalize(p) == Resolve(p, Cardinality(DOMAIN FileSystem))

\* a byte that occurs in no UTF-8 text
InvalidByte == "0xFF"

\* OsStr::to_str: None unless the name is valid Unicode
to_str(name) ==
    IF \E i \in 1..Len(name) : name[i] = InvalidByte THEN None ELSE Some(name)

U1 == <<"u","1">>
U2 == <<"u","2">>
U3 == <<"u","3">>
\* a file name that is not valid Unicode
BAD == <<"u", InvalidByte>>

\* an entry of a /dev/disk/by-* directory: a symbolic link name -> target;
\* ok is FALSE for an entry the iterator yields as Err
Link(name, target) == [ok |-> TRUE, name |-> name, target |-> target]
Unreadable == [ok |-> FALSE, name |-> <<>>, target |-> <<>>]

\* DirEntry::path().canonicalize(): the entry is a link, resolved to its end
entry_canonicalize(entry) == canonicalize(entry.target)

----------------------------------------------------------------------------
(* from_uuid and find_uuid *)

RECURSIVE from_uuid_stop_loop(_, _, _)
from_uuid_stop_loop(uuid, uuid_dir, i) ==
    IF i > Len(uuid_dir) THEN [result |-> None, read |-> Len(uuid_dir)]
    ELSE IF ~uuid_dir[i].ok THEN from_uuid_stop_loop(uuid, uuid_dir, i + 1)
    ELSE IF uuid_dir[i].name = uuid
         THEN IF entry_canonicalize(uuid_dir[i]).ok
              THEN [result |-> Some(entry_canonicalize(uuid_dir[i]).val), read |-> i]
              ELSE [result |-> None, read |-> i]
         ELSE from_uuid_stop_loop(uuid, uuid_dir, i + 1)

\* returns canonicalize().ok() of the first entry of that name: a dangling
\* entry ends the scan
from_uuid_stop_at_name(uuid, uuid_dir) == from_uuid_stop_loop(uuid, uuid_dir, 1)

RECURSIVE from_uuid_raw_loop(_, _, _)
from_uuid_raw_loop(uuid, uuid_dir, i) ==
    IF i > Len(uuid_dir) THEN [result |-> None, read |-> Len(uuid_dir)]
    ELSE IF ~uuid_dir[i].ok THEN from_uuid_raw_loop(uuid, uuid_dir, i + 1)
    ELSE IF uuid_dir[i].name = uuid
         THEN IF entry_canonicalize(uuid_dir[i]).ok
              THEN [result |-> Some(uuid_dir[i].target), read |-> i]
              ELSE from_uuid_raw_loop(uuid, uuid_dir, i + 1)
         ELSE from_uuid_raw_loop(uuid, uuid_dir, i + 1)

\* returns where the entry points (read_link) instead of the canonical path
from_uuid_raw_target(uuid, uuid_dir) == from_uuid_raw_loop(uuid, uuid_dir, 1)

RECURSIVE from_uuid_loop(_, _, _)
\* the for loop of from_uuid from the i-th entry on; read counts the entries
\* taken from the iterator
from_uuid_loop(uuid, uuid_dir, i) ==
    IF i > Len(uuid_dir) THEN [result |-> None, read |-> Len(uuid_dir)]
    ELSE IF ~uuid_dir[i].ok THEN from_uuid_loop(uuid, uuid_dir, i + 1)
    ELSE IF uuid_dir[i].name = uuid
         THEN IF entry_canonicalize(uuid_dir[i]).ok
              THEN [result |-> Some(entry_canonicalize(uuid_dir[i]).val), read |-> i]
              ELSE from_uuid_loop(uuid, uuid_dir, i + 1)
         ELSE from_uuid_loop(uuid, uuid_dir, i + 1)

\* fn from_uuid(uuid: &str, uuid_dir: fs::ReadDir) -> Option<PathBuf>
from_uuid(uuid, uuid_dir) == from_uuid_loop(uuid, uuid_dir, 1)

RECURSIVE find_uuid_abort_loop(_, _, _)
find_uuid_abort_loop(path, uuid_dir, i) ==
    IF i > Len(uuid_dir) THEN [result |-> None, read |-> Len(uuid_dir)]
    ELSE IF ~uuid_dir[i].ok THEN find_uuid_abort_loop(path, uuid_dir, i + 1)
    ELSE IF entry_canonicalize(uuid_dir[i]).ok
         THEN IF entry_canonicalize(uuid_dir[i]).val = path
              THEN IF to_str(uuid_dir[i].name).some
                   THEN [result |-> Some(to_str(uuid_dir[i].name).val), read |-> i]
                   ELSE find_uuid_abort_loop(path, uuid_dir, i + 1)
              ELSE find_uuid_abort_loop(path, uuid_dir, i + 1)
         ELSE [result |-> None, read |-> i]

\* uuid_entry.path().canonicalize().ok()? in the loop: the first dangling
\* entry ends the scan
find_uuid_abort_on_dangling(path, uuid_dir) ==
    IF canonicalize(path).ok
    THEN find_uuid_abort_loop(canonicalize(path).val, uuid_dir, 1)
    ELSE [result |-> None, read |-> 0]

RECURSIVE find_uuid_loop(_, _, _)
\* the for loop of find_uuid from the i-th entry on, path being canonical
find_uuid_loop(path, uuid_dir, i) ==
    IF i > Len(uuid_dir) THEN [result |-> None, read |-> Len(uuid_dir)]
    ELSE IF ~uuid_dir[i].ok THEN find_uuid_loop(path, uuid_dir, i + 1)
    ELSE IF entry_canonicalize(uuid_dir[i]).ok
         THEN IF entry_canonicalize(uuid_dir[i]).val = path
              THEN IF to_str(uuid_dir[i].name).some
                   THEN [result |-> Some(to_str(uuid_dir[i].name).val), read |-> i]
                   ELSE find_uuid_loop(path, uuid_dir, i + 1)
              ELSE find_uuid_loop(path, uuid_dir, i + 1)
         ELSE find_uuid_loop(path, uuid_dir, i + 1)

\* fn find_uuid(path: &Path, uuid_dir: fs::ReadDir) -> Option<String>
find_uuid(path, uuid_dir) ==
    IF canonicalize(path).ok
    THEN find_uuid_loop(canonicalize(path).val, uuid_dir, 1)
    ELSE [result |-> None, read |-> 0]

----------------------------------------------------------------------------
(* SpecScan: the two scans over a bounded set of listings *)

Names == {U1, U2, BAD}
Targets == {SDA1, SDA2, LNK, CYC, GONE}
Entries == {Link(n, t) : n \in Names, t \in Targets} \cup {Unreadable}
Listings == SeqsUpTo(Entries, MaxEntries)

\* the identifier values asked for (&str: always valid Unicode)
Uuids == {U1, U2, U3}
\* the device paths asked for
DevicePaths == {SDA1, SDA2, LNK, CYC, GONE}

InitScan ==
    /\ listing \in Listings
    /\ query = [op |-> "none"] /\ answer = None
    /\ input = <<>> /\ parsed = None /\ text = None /\ pstep = "input"
    /\ dirs = <<>> /\ call = [op |-> "none"]

\* from_uuid(uuid, listing)
Forward(uuid) ==
    /\ query' = [op |-> "from_uuid", arg |-> uuid]
    /\ answer' = from_uuid(uuid, listing)
    /\ UNCHANGED <<listing, input, parsed, text, pstep, dirs, call>>

\* find_uuid(path, listing)
Reverse(path) ==
    /\ query' = [op |-> "find_uuid", arg |-> path]
    /\ answer' = find_uuid(path, listing)
    /\ UNCHANGED <<listing, input, parsed, text, pstep, dirs, call>>

NextScan ==
    \/ \E uuid \in Uuids : Forward(uuid)
    \/ \E path \in DevicePaths : Reverse(path)

SpecScan == InitScan /\ [][NextScan]_vars

----------------------------------------------------------------------------
(* get_device_path and get_source over the /dev/disk/by-* directories *)

\* Path::read_dir on the directories as they are now
read_dir(idpath) ==
    IF idpath \in DOMAIN dirs /\ dirs[idpath].exists
    THEN Ok(dirs[idpath].entries)
    ELSE Err("ENOENT")

\* a ReadDir kept from the call before and iterated again: it is exhausted
dir_reuse_handle(variant) ==
    IF /\ call.op # "none"
       /\ call.outcome = "return"
       /\ call.variant = variant
    THEN Ok(<<>>)
    ELSE read_dir(disk_by_path(variant))

\* PartitionID::dir: the listing of the variant's directory; Err stands for
\* the panic of unwrap_or_else
dir(variant) == read_dir(disk_by_path(variant))

\* the system calls a call made, in order
ReadDirEvent(variant, ok) ==
    [sys |-> "read_dir", path |-> disk_by_path(variant), ok |-> ok]
CanonicalizeEvent(path) ==
    [sys |-> "canonicalize", path |-> path, ok |-> canonicalize(path).ok]

Panicked(variant) ==
    [outcome |-> "panic", value |-> None, io |-> <<ReadDirEvent(variant, FALSE)>>]

\* PartitionID::get_device_path(&self)
get_device_path(self) ==
    IF ~dir(self.variant).ok THEN Panicked(self.variant)
    ELSE [outcome |-> "return",
          value |-> from_uuid(self.id, dir(self.variant).val).result,
          io |-> <<ReadDirEvent(self.variant, TRUE)>>]

\* path.canonicalize().unwrap() ahead of the scan: a missing target panics
get_source_unwrap_target(variant, path) ==
    IF ~dir(variant).ok THEN Panicked(variant)
    ELSE IF ~canonicalize(path).ok
    THEN [outcome |-> "panic", value |-> None,
          io |-> <<ReadDirEvent(variant, TRUE), CanonicalizeEvent(path)>>]
    ELSE [outcome |-> "return",
          value |-> IF find_uuid(path, dir(variant).val).result.some
                    THEN Some(new(variant, find_uuid(path, dir(variant).val).result.val))
                    ELSE None,
          io |-> <<ReadDirEvent(variant, TRUE), CanonicalizeEvent(path)>>]

\* the target is canonicalized, and absent returned, before the directory
\* is opened
get_source_canonicalize_first(variant, path) ==
    IF ~canonicalize(path).ok
    THEN [outcome |-> "return", value |-> None, io |-> <<CanonicalizeEvent(path)>>]
    ELSE IF ~dir(variant).ok
    THEN [outcome |-> "panic", value |-> None,
          io |-> <<CanonicalizeEvent(path), ReadDirEvent(variant, FALSE)>>]
    ELSE [outcome |-> "return",
          value |-> IF find_uuid(path, dir(variant).val).result.some
                    THEN Some(new(variant, find_uuid(path, dir(variant).val).result.val))
                    ELSE None,
          io |-> <<CanonicalizeEvent(path), ReadDirEvent(variant, TRUE)>>]

\* PartitionID::get_source(variant, path): Self::dir(variant) is evaluated as
\* an argument of find_uuid, which canonicalizes path only once it runs
get_source(variant, path) ==
    IF ~dir(variant).ok THEN Panicked(variant)
    ELSE [outcome |-> "return",
          value |-> IF find_uuid(path, dir(variant).val).result.some
                    THEN Some(new(variant, find_uuid(path, dir(variant).val).result.val))
                    ELSE None,
          io |-> <<ReadDirEvent(variant, TRUE), CanonicalizeEvent(path)>>]

\* PartitionID::get_uuid and PartitionID::get_partuuid
get_uuid(path) == get_source("UUID", path)
get_partuuid(path) == get_source("PartUUID", path)

----------------------------------------------------------------------------
(* Spec: resolution calls while the directories change *)

DirPaths == {disk_by_path(variant) : variant \in PartitionSource}

\* what the operating environment puts into the directories
DirEntries == {Link(U1, SDA1), Link(U1, GONE), Unreadable}

\* the identities resolved: values as found in a directory and a parsed path
SelfIds == {U1, SDA1}
\* the device paths whose identity is asked for
SourcePaths == {LNK, GONE}

RECURSIVE SumLen(_, _)
SumLen(f, S) ==
    IF S = {} THEN 0
    ELSE LET x == CHOOSE y \in S : TRUE IN Len(f[x].entries) + SumLen(f, S \ {x})

TotalEntries == SumLen(dirs, DOMAIN dirs)

MissingDirs == Cardinality({d \in DOMAIN dirs : ~dirs[d].exists})

NoCall ==
    [op |-> "none", tick |-> 0, variant |-> "ID", arg |-> <<>>,
     outcome |-> "return", value |-> None, io |-> <<>>]

\* the record of a call: what was called with what, and how it ended; tick
\* alternates so that two equal calls in a row are two steps
Called(op, variant, arg, r) ==
    [op |-> op, tick |-> 1 - call.tick, variant |-> variant, arg |-> arg,
     outcome |-> r.outcome, value |-> r.value, io |-> r.io]

Init ==
    /\ dirs = [d \in DirPaths |-> [exists |-> TRUE, entries |-> <<>>]]
    /\ call = NoCall
    /\ input = <<>> /\ parsed = None /\ text = None /\ pstep = "input"
    /\ listing = <<>> /\ query = [op |-> "none"] /\ answer = None

others == <<input, parsed, text, pstep, listing, query, answer>>

\* PartitionID::new(variant, id).get_device_path()
GetDevicePath(variant, id) ==
    /\ call' = Called("get_device_path", variant, id, get_device_path(new(variant, id)))
    /\ UNCHANGED <<dirs, others>>

\* PartitionID::get_source(variant, path)
GetSource(variant, path) ==
    /\ call' = Called("get_source", variant, path, get_source(variant, path))
    /\ UNCHANGED <<dirs, others>>

\* PartitionID::get_uuid(path)
GetUuid(path) ==
    /\ call' = Called("get_source", "UUID", path, get_uuid(path))
    /\ UNCHANGED <<dirs, others>>

\* PartitionID::get_partuuid(path)
GetPartuuid(path) ==
    /\ call' = Called("get_source", "PartUUID", path, get_partuuid(path))
    /\ UNCHANGED <<dirs, others>>

\* the environment links a name into a directory
AddEntry(d, e) ==
    /\ dirs[d].exists
    /\ TotalEntries + MissingDirs < MaxDirChanges
    /\ dirs' = [dirs EXCEPT ![d].entries = Append(@, e)]
    /\ UNCHANGED <<call, others>>

\* the environment removes the i-th entry of a directory
RemoveEntry(d, i) ==
    /\ i \in 1..Len(dirs[d].entries)
    /\ dirs' = [dirs EXCEPT ![d].entries =
                   SubSeq(@, 1, i - 1) \o SubSeq(@, i + 1, Len(@))]
    /\ UNCHANGED <<call, others>>

\* the environment points the i-th entry of a directory elsewhere
Retarget(d, i, t) ==
    /\ i \in 1..Len(dirs[d].entries)
    /\ dirs[d].entries[i].ok
    /\ dirs[d].entries[i].target # t
    /\ dirs' = [dirs EXCEPT ![d].entries[i].target = t]
    /\ UNCHANGED <<call, others>>

\* a directory goes away with what it holds
RemoveDir(d) ==
    /\ dirs[d].exists
    /\ TotalEntries - Len(dirs[d].entries) + MissingDirs < MaxDirChanges
    /\ dirs' = [dirs EXCEPT ![d] = [exists |-> FALSE, entries |-> <<>>]]
    /\ UNCHANGED <<call, others>>

\* a directory comes back, empty
CreateDir(d) ==
    /\ ~dirs[d].exists
    /\ dirs' = [dirs EXCEPT ![d].exists = TRUE]
    /\ UNCHANGED <<call, others>>

Next ==
    \/ \E variant \in PartitionSource, id \in SelfIds : GetDevicePath(variant, id)
    \/ \E variant \in PartitionSource, path \in SourcePaths : GetSource(variant, path)
    \/ \E path \in SourcePaths : GetUuid(path)
    \/ \E path \in SourcePaths : GetPartuuid(path)
    \/ \E d \in DirPaths, e \in DirEntries : AddEntry(d, e)
    \/ \E d \in DirPaths, i \in 1..MaxDirChanges : RemoveEntry(d, i)
    \/ \E d \in DirPaths, i \in 1..MaxDirChanges, t \in {SDA1, GONE} : Retarget(d, i, t)
    \/ \E d \in DirPaths : RemoveDir(d)
    \/ \E d \in DirPaths : CreateDir(d)

Spec == Init /\ [][Next]_vars

----------------------------------------------------------------------------
(* Properties of from_str and the text form *)

\* the five textual prefixes of the identifier notation
Prefix(k) ==
    CASE k = "ID" -> <<"I","D","=">>
      [] k = "Label" -> <<"L","A","B","E","L","=">>
      [] k = "PartLabel" -> <<"P","A","R","T","L","A","B","E","L","=">>
      [] k = "PartUUID" -> <<"P","A","R","T","U","U","I","D","=">>
      [] k = "UUID" -> <<"U","U","I","D","=">>

Prefixed == PartitionSource \ {"Path"}

\* s begins with p, character by character
BeginsWith(s, p) == Len(p) <= Len(s) /\ \A i \in 1..Len(p) : s[i] = p[i]

\* what is left of s after its first n characters
After(s, n) == [i \in 1..(Len(s) - n) |-> s[i + n]]

\* C1: from_str maps a text beginning with '/' to kind Path with the whole
\* text as value, and otherwise a text beginning with one of the five prefixes
\* to that prefix's kind with the text after the prefix as value; no text
\* begins with two of the prefixes (so the order of the tests is immaterial),
\* PARTLABEL=x is PartLabel, never Label, and PARTUUID=x is PartUUID, never UUID.
C1_ParseMapsByPrefix ==
    pstep # "input" =>
        /\ BeginsWith(input, <<"/">>) => parsed = Ok(new_path(input))
        /\ \A k \in Prefixed :
              (~BeginsWith(input, <<"/">>) /\ BeginsWith(input, Prefix(k))) =>
                  /\ parsed = Ok(new(k, After(input, Len(Prefix(k)))))
                  /\ \A j \in Prefixed \ {k} : ~BeginsWith(input, Prefix(j))
        /\ BeginsWith(input, Prefix("PartLabel")) =>
              parsed.ok /\ parsed.val.variant = "PartLabel"
        /\ BeginsWith(input, Prefix("PartUUID")) =>
              parsed.ok /\ parsed.val.variant = "PartUUID"

\* PARTUUID=a/ has been parsed to the PartUUID identity a/
C1_Witness ==
    /\ pstep = "parsed"
    /\ input = <<"P","A","R","T","U","U","I","D","=","a","/">>
    /\ parsed = Ok(new_partuuid(<<"a","/">>))

Unrecognised(s) ==
    /\ ~BeginsWith(s, <<"/">>)
    /\ \A k \in Prefixed : ~BeginsWith(s, Prefix(k))

\* C2: a text that begins neither with '/' nor with one of the five prefixes
\* fails to parse; the error is the message built around the input, which it
\* carries unchanged between the quotes, and no PartitionID is produced.
C2_UnrecognisedFails ==
    (pstep # "input" /\ Unrecognised(input)) =>
        /\ ~parsed.ok
        /\ Len(parsed.err) = Len(input) + 1 + Len(ErrSuffix)
        /\ parsed.err[1] = "'"
        /\ \A i \in 1..Len(input) : parsed.err[i + 1] = input[i]
        /\ After(parsed.err, Len(input) + 1) = ErrSuffix
        /\ pstep # "serialized"

\* the text foo was parsed and refused
C2_Witness ==
    /\ pstep = "parsed"
    /\ input = <<"f","o","o">>
    /\ ~parsed.ok

\* the empty text was parsed and refused
C2_WitnessEmpty ==
    /\ pstep = "parsed"
    /\ input = <<>>
    /\ ~parsed.ok

\* C3: writing back what was parsed gives the text that was parsed: for every
\* kind but Path and every non-empty v without '=', TOKEN=v comes back as
\* TOKEN=v, and every text beginning with '/' comes back as itself.
C3_RoundTrip ==
    pstep = "serialized" =>
        /\ \A k \in Prefixed :
              ( /\ BeginsWith(input, Prefix(k))
                /\ Len(input) > Len(Prefix(k))
                /\ \A i \in (Len(Prefix(k)) + 1)..Len(input) : input[i] # "=" )
              => text = Some(input)
        /\ BeginsWith(input, <<"/">>) => text = Some(input)

\* PARTLABEL=aa went through from_str and back
C3_Witness ==
    /\ pstep = "serialized"
    /\ input = <<"P","A","R","T","L","A","B","E","L","=","a","a">>
    /\ parsed.val.variant = "PartLabel"
    /\ text = Some(input)

----------------------------------------------------------------------------
(* Properties of from_uuid and find_uuid *)

\* the least member of a non-empty set of indices
First(S) == CHOOSE i \in S : \A j \in S : i <= j

\* entries of listing l named uuid whose path canonicalizes
NamedAndResolvesIn(uuid, l) ==
    {i \in 1..Len(l) :
        /\ l[i].ok
        /\ l[i].name = uuid
        /\ entry_canonicalize(l[i]).ok}

NamedAndResolves(uuid) == NamedAndResolvesIn(uuid, listing)

\* C4: from_uuid returns the canonical path of the first entry, in iteration
\* order, whose file name equals the value and whose path canonicalizes; an
\* entry of that name that does not canonicalize is passed over; with no such
\* entry the result is absent.
C4_ForwardFirstResolvingName ==
    query.op = "from_uuid" =>
        LET hits == NamedAndResolves(query.arg) IN
        IF hits = {}
        THEN answer.result = None
        ELSE /\ answer.result = Some(entry_canonicalize(listing[First(hits)]).val)
             /\ answer.read = First(hits)

\* u1 is looked up in a listing whose first u1 dangles and whose second u1
\* points at /dev/lnk: the answer is /dev/sda1
C4_Witness ==
    /\ query = [op |-> "from_uuid", arg |-> U1]
    /\ listing = <<Link(U1, GONE), Link(U1, LNK)>>
    /\ answer.result = Some(SDA1)

\* entries of listing l whose canonical path is that of path
ResolvesToIn(path, l) ==
    {i \in 1..Len(l) :
        /\ l[i].ok
        /\ entry_canonicalize(l[i]).ok
        /\ entry_canonicalize(l[i]).val = canonicalize(path).val}

ResolvesTo(path) == ResolvesToIn(path, listing)

\* C5 as stated: find_uuid answers absent, reading no entry, when the target
\* does not canonicalize; otherwise it answers the file name of the first
\* entry whose canonical path equals the canonical target, and absent when
\* there is none.
C5_ReverseFirstMatch ==
    query.op = "find_uuid" =>
        IF ~canonicalize(query.arg).ok
        THEN answer = [result |-> None, read |-> 0]
        ELSE LET hits == ResolvesTo(query.arg) IN
             IF hits = {}
             THEN answer.result = None
             ELSE answer.result = Some(listing[First(hits)].name)

\* entries whose canonical path is that of path and whose name is Unicode
ResolvesToWithUnicodeNameIn(path, l) ==
    {i \in ResolvesToIn(path, l) : \A j \in 1..Len(l[i].name) :
                                       l[i].name[j] # InvalidByte}

ResolvesToWithUnicodeName(path) == ResolvesToWithUnicodeNameIn(path, listing)

\* C5 amended: as C5, the first entry being the first whose canonical path
\* equals the canonical target and whose file name is valid Unicode; a
\* matching entry with any other name is passed over.
C5_ReverseFirstUnicodeMatch ==
    query.op = "find_uuid" =>
        IF ~canonicalize(query.arg).ok
        THEN answer = [result |-> None, read |-> 0]
        ELSE LET hits == ResolvesToWithUnicodeName(query.arg) IN
             IF hits = {}
             THEN answer.result = None
             ELSE /\ answer.result = Some(listing[First(hits)].name)
                  /\ answer.read = First(hits)

\* /dev/lnk is looked up in a listing whose first entry dangles and whose
\* second, u2, points at /dev/sda1: the answer is u2
C5_Witness ==
    /\ query = [op |-> "find_uuid", arg |-> LNK]
    /\ listing = <<Link(U1, GONE), Link(U2, SDA1)>>
    /\ answer.result = Some(U2)

\* a missing target was looked up in a listing of two entries, none was read
C5_WitnessNoTarget ==
    /\ query = [op |-> "find_uuid", arg |-> GONE]
    /\ Len(listing) = MaxEntries
    /\ answer = [result |-> None, read |-> 0]

\* no two readable entries of the listing have the same file name
DistinctNames ==
    \A i, j \in 1..Len(listing) :
        (i # j /\ listing[i].ok /\ listing[j].ok) => listing[i].name # listing[j].name

\* C6: over one listing with distinct names, if from_uuid(v) is p then
\* find_uuid(p) is some w with from_uuid(w) = p, and w is v when no other
\* entry resolves to p; and if find_uuid(d) is v then from_uuid(v) is the
\* canonical form of d.
C6_ForwardReverseInverse ==
    DistinctNames =>
        /\ (query.op = "from_uuid" /\ answer.result.some) =>
              LET p == answer.result.val
                  w == find_uuid(p, listing).result
              IN /\ w.some
                 /\ from_uuid(w.val, listing).result = Some(p)
                 /\ (\A i \in ResolvesTo(p) : listing[i].name = query.arg)
                        => w.val = query.arg
        /\ (query.op = "find_uuid" /\ answer.result.some) =>
              from_uuid(answer.result.val, listing).result
                  = Some(canonicalize(query.arg).val)

\* u1 -> /dev/lnk was resolved forward to /dev/sda1, which resolves back to
\* the earlier entry u2
C6_Witness ==
    /\ query = [op |-> "from_uuid", arg |-> U1]
    /\ listing = <<Link(U2, SDA1), Link(U1, LNK)>>
    /\ answer.result = Some(SDA1)
    /\ find_uuid(SDA1, listing).result = Some(U2)

----------------------------------------------------------------------------
(* Properties of get_device_path and get_source *)

\* the step is a resolution call
IsCall == call'.tick # call.tick

\* the directory a call of that variant reads, as it is before the call
DirOf(variant) == dirs[disk_by_path(variant)]

\* what a scan of listing l for the identifier uuid finds
ExpectedPath(uuid, l) ==
    IF NamedAndResolvesIn(uuid, l) = {} THEN None
    ELSE Some(entry_canonicalize(l[First(NamedAndResolvesIn(uuid, l))]).val)

\* what a scan of listing l for the device at path finds
ExpectedIdentity(variant, path, l) ==
    IF ~canonicalize(path).ok \/ ResolvesToWithUnicodeNameIn(path, l) = {} THEN None
    ELSE Some([variant |-> variant,
               id |-> l[First(ResolvesToWithUnicodeNameIn(path, l))].name])

\* C7: every kind but Path has the directory /dev/disk/by-<token>, and a call
\* of get_device_path or get_source for kind Path opens no directory.
C7_PathOpensNoDirectory ==
    /\ \A k \in Prefixed :
          ToUpper(After(disk_by_path(k), 13)) \o <<"=">> = Prefix(k)
    /\ (call.op # "none" /\ call.variant = "Path") =>
          \A i \in 1..Len(call.io) : call.io[i].sys # "read_dir"

\* C8: a resolution call panics exactly when its directory cannot be opened;
\* with the directory open it returns, and returns absent when the entries
\* are unreadable, do not canonicalize or do not match, or when the target
\* path does not canonicalize.
C8_OnlyOpenFailureIsFatal ==
    [][IsCall =>
        /\ call'.outcome \in {"panic", "return"}
        /\ (call'.outcome = "panic") <=> ~DirOf(call'.variant).exists
        /\ (DirOf(call'.variant).exists /\ call'.op = "get_device_path"
              /\ NamedAndResolvesIn(call'.arg, DirOf(call'.variant).entries) = {})
             => (call'.outcome = "return" /\ call'.value = None)
        /\ (DirOf(call'.variant).exists /\ call'.op = "get_source"
              /\ ( \/ ~canonicalize(call'.arg).ok
                   \/ ResolvesToIn(call'.arg, DirOf(call'.variant).entries) = {} ))
             => (call'.outcome = "return" /\ call'.value = None)
      ]_vars

\* a get_device_path call found its directory missing and panicked
C8_Witness ==
    /\ call.op = "get_device_path"
    /\ call.outcome = "panic"
    /\ ~DirOf(call.variant).exists

\* a get_source call for a missing target returned absent
C8_WitnessAbsorbed ==
    /\ call.op = "get_source"
    /\ call.arg = GONE
    /\ call.outcome = "return"
    /\ call.value = None

\* C9: a resolution call leaves the directories as they are, and its result
\* is that of a scan of its directory as it is at the call, whatever was
\* called or changed before.
C9_FreshScanEachCall ==
    [][IsCall =>
        /\ dirs' = dirs
        /\ IF ~DirOf(call'.variant).exists
           THEN call'.outcome = "panic"
           ELSE /\ call'.outcome = "return"
                /\ call'.op = "get_device_path" =>
                      call'.value = ExpectedPath(call'.arg, DirOf(call'.variant).entries)
                /\ call'.op = "get_source" =>
                      call'.value = ExpectedIdentity(call'.variant, call'.arg,
                                                     DirOf(call'.variant).entries)
      ]_vars

\* a second or later call resolved u1 to /dev/sda1, and the entry has been
\* pointed at a missing device since
C9_Witness ==
    /\ call.op = "get_device_path"
    /\ call.tick = 0
    /\ call.arg = U1
    /\ call.value = Some(SDA1)
    /\ DirOf(call.variant).entries = <<Link(U1, GONE)>>

\* C10: get_source opens the directory first: with the directory missing it
\* panics having done nothing else, whether or not the target exists, and
\* the target is canonicalized only after the directory was opened.
C10_OpenBeforeCanonicalize ==
    [][(IsCall /\ call'.op = "get_source") =>
        /\ call'.io[1] = [sys |-> "read_dir", path |-> disk_by_path(call'.variant),
                          ok |-> DirOf(call'.variant).exists]
        /\ ~DirOf(call'.variant).exists =>
              (call'.outcome = "panic" /\ Len(call'.io) = 1)
        /\ \A i \in 1..Len(call'.io) :
              call'.io[i].sys = "canonicalize" =>
                  (i > 1 /\ DirOf(call'.variant).exists)
        /\ (call'.outcome = "return" /\ ~canonicalize(call'.arg).ok) =>
              (call'.value = None /\ DirOf(call'.variant).exists)
      ]_vars

\* get_source for a missing target panicked on the missing directory
C10_Witness ==
    /\ call.op = "get_source"
    /\ call.arg = GONE
    /\ call.outcome = "panic"
    /\ call.io = <<[sys |-> "read_dir", path |-> disk_by_path(call.variant), ok |-> FALSE]>>

=============================================================================
